---- MODULE Spec2Model ----
(***************************************************************************)
(* Model of utils/scripts/analyze_gas.py: the log scanner                  *)
(* (extract_tx_hashes), the receipt fetcher (fetch_transaction_receipt)    *)
(* and the orchestration, report and statistics code of main.              *)
(*                                                                         *)
(* Text is modelled as sequences of one-character strings, JSON values as  *)
(* records, the file system and the RPC endpoint as the environment.       *)
(***************************************************************************)
EXTENDS Integers, Sequences, FiniteSets, TLC

VARIABLES
    log_file,     \* the log file on disk: [kind, lines]
    out_before,   \* the output file as it was before the run
    out_file,     \* the output file on disk: [exists, complete, content]
    pc,           \* position of the run
    exit_code,    \* process exit status, -1 while the run is alive
    line_no,      \* number of log lines consumed by the scanner
    tx_hashes,    \* hashes extracted so far / returned by the scanner
    idx,          \* number of hashes the fetch loop has finished
    receipts,     \* collected records
    successful,   \* success counter
    failed,       \* failure counter
    in_flight,    \* requests sent and not yet answered
    requests,     \* every request the endpoint has received, in order
    responses,    \* the endpoint's answer to each request, in order
    progress,     \* the per-hash marker printed by the loop
    summary       \* what the final summary printed

vars == <<log_file, out_before, out_file, pc, exit_code, line_no, tx_hashes,
          idx, receipts, successful, failed, in_flight, requests, responses,
          progress, summary>>

(***************************************************************************)
(* Bounds of the model.                                                    *)
(***************************************************************************)
MaxLines == 2
MaxScanLines == 2

(***************************************************************************)
(* Text helpers.                                                           *)
(***************************************************************************)
Rep(c, n) == [k \in 1..n |-> c]

SeqsUpTo(S, n) == UNION {[1..k -> S] : k \in 0..n}

DecChars == {"0", "1", "2", "3", "4", "5", "6", "7", "8", "9"}
HexChars == DecChars \cup {"a", "b", "c", "d", "e", "f"}
                     \cup {"A", "B", "C", "D", "E", "F"}

(***************************************************************************)
(* extract_tx_hashes: the pattern  tx_hash=(0x[a-fA-F0-9]{64})             *)
(***************************************************************************)
HashDigits == 64

TxHashLiteral == <<"t", "x", "_", "h", "a", "s", "h", "=">>

\* the pattern matches with its first character at position p of the line
MatchAt(line, p) ==
    /\ p + Len(TxHashLiteral) + 2 + HashDigits - 1 <= Len(line)
    /\ SubSeq(line, p, p + Len(TxHashLiteral) - 1) = TxHashLiteral
    /\ line[p + Len(TxHashLiteral)] = "0"
    /\ line[p + Len(TxHashLiteral) + 1] = "x"
    /\ \A k \in 0..(HashDigits - 1) :
          line[p + Len(TxHashLiteral) + 2 + k] \in HexChars

\* group(1) of a match at p
Group1(line, p) ==
    SubSeq(line, p + Len(TxHashLiteral),
                 p + Len(TxHashLiteral) + 2 + HashDigits - 1)

\* pattern.search(line): the leftmost match, 0 when there is none
SearchLine(line) ==
    LET hits == {p \in 1..Len(line) : MatchAt(line, p)}
    IN  IF hits = {} THEN 0
        ELSE CHOOSE p \in hits : \A q \in hits : p <= q

\* one iteration of "for line in f"
ScanStep(hashes, line) ==
    IF SearchLine(line) # 0
    THEN Append(hashes, Group1(line, SearchLine(line)))
    ELSE hashes

(***************************************************************************)
(* Log lines of the model.                                                 *)
(***************************************************************************)
HashA == <<"0", "x">> \o Rep("a", HashDigits)
HashB == <<"0", "x">> \o Rep("F", HashDigits - 2) \o <<"0", "9">>

LineA == <<"n", "=", "1", " ">> \o TxHashLiteral \o HashA
LineB == TxHashLiteral \o HashB \o <<" ", "o", "k">>
LineNoise == <<"I", "N", "F", "O", " ", "t", "x", "_", "h", "a", "s", "h">>
LineShort == TxHashLiteral \o <<"0", "x">> \o Rep("a", HashDigits - 1)
LineLong == TxHashLiteral \o <<"0", "x">> \o Rep("a", HashDigits + 1)
LineNonHex == TxHashLiteral \o <<"0", "x">> \o Rep("a", HashDigits - 1)
                            \o <<"g">>
LineTwo == TxHashLiteral \o HashA \o <<" ">> \o TxHashLiteral \o HashB
LineMalThenGood == TxHashLiteral \o <<"0", "x", "1", "2", " ">>
                                 \o TxHashLiteral \o HashB

MainLines == {LineA, LineB, LineNoise}
ScanLines == {LineA, LineB, LineNoise, LineShort, LineLong, LineNonHex,
              LineTwo, LineMalThenGood}

LogFiles(lines, n) ==
    {[kind |-> k, lines |-> l] : k \in {"ok", "corrupt"}, l \in SeqsUpTo(lines, n)}
    \cup {[kind |-> k, lines |-> <<>>] : k \in {"missing", "denied"}}

(***************************************************************************)
(* JSON values.  A gasUsed value is absent, a JSON number or a JSON        *)
(* string; a result value is null (Python None) or an object, given by its *)
(* set of keys and the value stored under "gasUsed".                       *)
(***************************************************************************)
GAbsent == [kind |-> "absent", n |-> 0, s |-> <<>>]
GNum(n) == [kind |-> "num", n |-> n, s |-> <<>>]
GStr(s) == [kind |-> "str", n |-> 0, s |-> s]

None == [null |-> TRUE, keys |-> {}, gasUsed |-> GAbsent]
Obj(keys, g) == [null |-> FALSE, keys |-> keys, gasUsed |-> g]

GasValues ==
    { GStr(<<"0", "x", "5", "2", "0", "8">>),
      GStr(<<"0", "x", "c", "3", "5", "0">>),
      GStr(<<"2", "1", "0", "0", "0">>),
      GNum(0),
      GStr(<<"0", "x", "z", "z">>),
      GStr(<<"n", "/", "a">>) }

ReceiptObjects ==
    {Obj({}, GAbsent), Obj({"status"}, GAbsent)}
    \cup {Obj({"status", "gasUsed"}, g) : g \in GasValues}

\* What one POST can come back with: a transport failure (connection error,
\* timeout, non-2xx status), or a JSON body with or without "error" and with
\* a "result" that is null or an object.
Responses ==
    { [ok |-> FALSE, error |-> FALSE, result |-> None],
      [ok |-> TRUE, error |-> TRUE, result |-> None],
      [ok |-> TRUE, error |-> TRUE, result |-> Obj({"status"}, GAbsent)],
      [ok |-> TRUE, error |-> FALSE, result |-> None] }
    \cup {[ok |-> TRUE, error |-> FALSE, result |-> o] : o \in ReceiptObjects}

(***************************************************************************)
(* fetch_transaction_receipt                                               *)
(***************************************************************************)
\* variant: the "error" field is not looked at
FetchResultIgnoresError(resp) ==
    IF ~resp.ok THEN None ELSE resp.result

FetchResult(resp) ==
    IF ~resp.ok THEN None
    ELSE IF resp.error THEN None
    ELSE resp.result

(***************************************************************************)
(* main: the fetch loop                                                    *)
(***************************************************************************)
\* Python truth value of what fetch_transaction_receipt returned
Truthy(v) == ~v.null /\ v.keys # {}

Record(tx_hash, receipt) == [tx_hash |-> tx_hash, receipt |-> receipt]

\* variant: a new record goes to the front of the list
LoopStepPrepends(st, tx_hash, receipt) ==
    IF ~receipt.null /\ receipt.keys # {}
    THEN [receipts |-> <<[tx_hash |-> tx_hash, receipt |-> receipt]>>
                       \o st.receipts,
          successful |-> st.successful + 1,
          failed |-> st.failed,
          progress |-> Append(st.progress, "ok")]
    ELSE [receipts |-> st.receipts,
          successful |-> st.successful,
          failed |-> st.failed + 1,
          progress |-> Append(st.progress, "fail")]

\* variant: a failed fetch is not counted
LoopStepForgetsFailure(st, tx_hash, receipt) ==
    IF ~receipt.null /\ receipt.keys # {}
    THEN [receipts |-> Append(st.receipts,
                              [tx_hash |-> tx_hash, receipt |-> receipt]),
          successful |-> st.successful + 1,
          failed |-> st.failed,
          progress |-> Append(st.progress, "ok")]
    ELSE [receipts |-> st.receipts,
          successful |-> st.successful,
          failed |-> st.failed,
          progress |-> Append(st.progress, "fail")]

\* the body of the loop after the fetch: st = [receipts, successful, failed,
\* progress]
LoopStep(st, tx_hash, receipt) ==
    IF Truthy(receipt)
    THEN [receipts |-> Append(st.receipts, Record(tx_hash, receipt)),
          successful |-> st.successful + 1,
          failed |-> st.failed,
          progress |-> Append(st.progress, "ok")]
    ELSE [receipts |-> st.receipts,
          successful |-> st.successful,
          failed |-> st.failed + 1,
          progress |-> Append(st.progress, "fail")]

\* variant: a failed fetch is tried again
NextIndexRetries(i, receipt) ==
    IF ~receipt.null /\ receipt.keys # {} THEN i + 1 ELSE i

\* enumerate(tx_hashes, 1): the loop moves on whatever the fetch returned
NextIndex(i, receipt) == i + 1

\* variant: the loop stops after its first iteration
LoopExhaustedEarly(i, hashes) == i >= 1 \/ i = Len(hashes)

LoopExhausted(i, hashes) == i = Len(hashes)

\* variant: the early exit is missing
NoHashesNever(hashes) == FALSE

NoHashes(hashes) == hashes = <<>>

(***************************************************************************)
(* main: saving the records                                                *)
(***************************************************************************)
NoFile == [exists |-> FALSE, complete |-> FALSE, content |-> <<>>]
Truncated == [exists |-> TRUE, complete |-> FALSE, content |-> <<>>]
StaleFile ==
    [exists |-> TRUE, complete |-> TRUE,
     content |-> <<Record(HashB, Obj({"status"}, GAbsent))>>]

\* json.dump(receipts, f): an array of {"tx_hash": ..., "receipt": ...}
Dump(recs) ==
    [k \in 1..Len(recs) |-> Record(recs[k].tx_hash, recs[k].receipt)]

Written(recs) == [exists |-> TRUE, complete |-> TRUE, content |-> Dump(recs)]

(***************************************************************************)
(* main: gas statistics                                                    *)
(***************************************************************************)
DigitValue(c) ==
    CASE c = "0" -> 0 [] c = "1" -> 1 [] c = "2" -> 2 [] c = "3" -> 3
      [] c = "4" -> 4 [] c = "5" -> 5 [] c = "6" -> 6 [] c = "7" -> 7
      [] c = "8" -> 8 [] c = "9" -> 9
      [] c \in {"a", "A"} -> 10 [] c \in {"b", "B"} -> 11
      [] c \in {"c", "C"} -> 12 [] c \in {"d", "D"} -> 13
      [] c \in {"e", "E"} -> 14 [] c \in {"f", "F"} -> 15
      [] OTHER -> 0

RECURSIVE DigitsValue(_, _)
DigitsValue(s, base) ==
    IF s = <<>> THEN 0
    ELSE DigitsValue(SubSeq(s, 1, Len(s) - 1), base) * base
         + DigitValue(s[Len(s)])

\* int(text, base) on plain digits: [ok, n], ok = FALSE for ValueError
ParseDigits(s, digits, base) ==
    IF s # <<>> /\ \A k \in 1..Len(s) : s[k] \in digits
    THEN [ok |-> TRUE, n |-> DigitsValue(s, base)]
    ELSE [ok |-> FALSE, n |-> 0]

StartsWith0x(s) == Len(s) >= 2 /\ s[1] = "0" /\ s[2] = "x"

\* the conversion of a gasUsed value
ParseGas(g) ==
    IF g.kind = "str" /\ StartsWith0x(g.s)
    THEN ParseDigits(SubSeq(g.s, 3, Len(g.s)), HexChars, 16)
    ELSE IF g.kind = "str" THEN ParseDigits(g.s, DecChars, 10)
    ELSE [ok |-> TRUE, n |-> g.n]

\* receipt.get("gasUsed")
GetGasUsed(receipt) ==
    IF "gasUsed" \in receipt.keys THEN receipt.gasUsed ELSE GAbsent

\* Python truth value of receipt.get("gasUsed")
GasTruthy(g) ==
    \/ g.kind = "num" /\ g.n # 0
    \/ g.kind = "str" /\ g.s # <<>>

\* the records whose gasUsed the statistics loop converts
Counted(item) ==
    Truthy(item.receipt) /\ GasTruthy(GetGasUsed(item.receipt))

RECURSIVE GasUsedValues(_)
GasUsedValues(recs) ==
    IF recs = <<>> THEN <<>>
    ELSE LET rest == GasUsedValues(SubSeq(recs, 1, Len(recs) - 1))
             item == recs[Len(recs)]
         IN  IF Counted(item)
             THEN Append(rest, ParseGas(GetGasUsed(item.receipt)).n)
             ELSE rest

\* the statistics loop raises ValueError on some record
StatsRaises(recs) ==
    \E k \in 1..Len(recs) :
        Counted(recs[k]) /\ ~ParseGas(GetGasUsed(recs[k].receipt)).ok

RECURSIVE SeqSum(_)
SeqSum(s) == IF s = <<>> THEN 0 ELSE s[1] + SeqSum(Tail(s))

SeqMin(s) == CHOOSE x \in {s[k] : k \in 1..Len(s)} : \A k \in 1..Len(s) : x <= s[k]
SeqMax(s) == CHOOSE x \in {s[k] : k \in 1..Len(s)} : \A k \in 1..Len(s) : x >= s[k]

\* the statistics block: avg is the quotient avg_num / avg_den
GasStats(values) ==
    IF values # <<>>
    THEN [has_gas |-> TRUE, count |-> Len(values),
          avg_num |-> SeqSum(values), avg_den |-> Len(values),
          min |-> SeqMin(values), max |-> SeqMax(values),
          total |-> SeqSum(values)]
    ELSE [has_gas |-> FALSE, count |-> 0, avg_num |-> 0, avg_den |-> 1,
          min |-> 0, max |-> 0, total |-> 0]

NoSummary ==
    [printed |-> FALSE, total |-> 0, successful |-> 0, failed |-> 0,
     gas |-> GasStats(<<>>)]

Summary(hashes, ok, bad, values) ==
    [printed |-> TRUE, total |-> Len(hashes), successful |-> ok,
     failed |-> bad, gas |-> GasStats(values)]

(***************************************************************************)
(* Initial states: a log file, and an output path that holds nothing or    *)
(* the file of an earlier run.                                             *)
(***************************************************************************)
InitRun(logs, outs) ==
    /\ log_file \in logs
    /\ out_before \in outs
    /\ out_file = out_before
    /\ pc = "start"
    /\ exit_code = -1
    /\ line_no = 0
    /\ tx_hashes = <<>>
    /\ idx = 0
    /\ receipts = <<>>
    /\ successful = 0
    /\ failed = 0
    /\ in_flight = <<>>
    /\ requests = <<>>
    /\ responses = <<>>
    /\ progress = <<>>
    /\ summary = NoSummary

Init == InitRun(LogFiles(MainLines, MaxLines), {NoFile, StaleFile})

InitScan == InitRun(LogFiles(ScanLines, MaxScanLines), {NoFile})

(***************************************************************************)
(* extract_tx_hashes                                                       *)
(***************************************************************************)
\* open(log_file_path, 'r'): FileNotFoundError, another error, or the file
ExtractOpen ==
    /\ pc = "start"
    /\ pc' = CASE log_file.kind = "missing" -> "not_found"
               [] log_file.kind = "denied" -> "read_error"
               [] OTHER -> "scan"
    /\ exit_code' = IF log_file.kind \in {"missing", "denied"} THEN 1
                    ELSE exit_code
    /\ UNCHANGED <<log_file, out_before, out_file, line_no, tx_hashes, idx,
                   receipts, successful, failed, in_flight, requests,
                   responses, progress, summary>>

\* one line of the file
ExtractLine ==
    /\ pc = "scan"
    /\ line_no < Len(log_file.lines)
    /\ line_no' = line_no + 1
    /\ tx_hashes' = ScanStep(tx_hashes, log_file.lines[line_no + 1])
    /\ UNCHANGED <<log_file, out_before, out_file, pc, exit_code, idx,
                   receipts, successful, failed, in_flight, requests,
                   responses, progress, summary>>

\* the file ends: the hashes are returned
ExtractReturn ==
    /\ pc = "scan"
    /\ line_no = Len(log_file.lines)
    /\ log_file.kind = "ok"
    /\ pc' = "scanned"
    /\ UNCHANGED <<log_file, out_before, out_file, exit_code, line_no,
                   tx_hashes, idx, receipts, successful, failed, in_flight,
                   requests, responses, progress, summary>>

\* reading raises after the readable lines
ExtractReadError ==
    /\ pc = "scan"
    /\ line_no = Len(log_file.lines)
    /\ log_file.kind = "corrupt"
    /\ pc' = "read_error"
    /\ exit_code' = 1
    /\ UNCHANGED <<log_file, out_before, out_file, line_no, tx_hashes, idx,
                   receipts, successful, failed, in_flight, requests,
                   responses, progress, summary>>

(***************************************************************************)
(* main                                                                    *)
(***************************************************************************)
\* "if not tx_hashes": sys.exit(0)
NoHashesExit ==
    /\ pc = "scanned"
    /\ NoHashes(tx_hashes)
    /\ pc' = "no_hashes"
    /\ exit_code' = 0
    /\ UNCHANGED <<log_file, out_before, out_file, line_no, tx_hashes, idx,
                   receipts, successful, failed, in_flight, requests,
                   responses, progress, summary>>

BeginFetch ==
    /\ pc = "scanned"
    /\ ~NoHashes(tx_hashes)
    /\ pc' = "loop"
    /\ idx' = 0
    /\ receipts' = <<>>
    /\ successful' = 0
    /\ failed' = 0
    /\ UNCHANGED <<log_file, out_before, out_file, exit_code, line_no,
                   tx_hashes, in_flight, requests, responses, progress,
                   summary>>

\* requests.post(...) is sent for the next hash
SendRequest ==
    /\ pc = "loop"
    /\ ~LoopExhausted(idx, tx_hashes)
    /\ idx < Len(tx_hashes)
    /\ pc' = "await"
    /\ in_flight' = Append(in_flight, tx_hashes[idx + 1])
    /\ requests' = Append(requests, tx_hashes[idx + 1])
    /\ UNCHANGED <<log_file, out_before, out_file, exit_code, line_no,
                   tx_hashes, idx, receipts, successful, failed, responses,
                   progress, summary>>

\* the call returns or raises; the rest of the loop body runs
ReceiveResponse ==
    /\ pc = "await"
    /\ \E resp \in Responses :
          LET st == LoopStep([receipts |-> receipts, successful |-> successful,
                              failed |-> failed, progress |-> progress],
                             tx_hashes[idx + 1], FetchResult(resp))
          IN  /\ responses' = Append(responses, resp)
              /\ receipts' = st.receipts
              /\ successful' = st.successful
              /\ failed' = st.failed
              /\ progress' = st.progress
              /\ idx' = NextIndex(idx, FetchResult(resp))
    /\ in_flight' = Tail(in_flight)
    /\ pc' = "loop"
    /\ UNCHANGED <<log_file, out_before, out_file, exit_code, line_no,
                   tx_hashes, requests, summary>>

\* open(args.output, 'w') and json.dump succeed
SaveOutput ==
    /\ pc = "loop"
    /\ LoopExhausted(idx, tx_hashes)
    /\ out_file' = Written(receipts)
    /\ pc' = "stats"
    /\ UNCHANGED <<log_file, out_before, exit_code, line_no, tx_hashes, idx,
                   receipts, successful, failed, in_flight, requests,
                   responses, progress, summary>>

\* open fails (the file is as it was) or the write fails after the file
\* was truncated: sys.exit(1)
SaveFails ==
    /\ pc = "loop"
    /\ LoopExhausted(idx, tx_hashes)
    /\ out_file' \in {out_file, Truncated}
    /\ pc' = "write_error"
    /\ exit_code' = 1
    /\ UNCHANGED <<log_file, out_before, line_no, tx_hashes, idx, receipts,
                   successful, failed, in_flight, requests, responses,
                   progress, summary>>

\* the statistics loop, the summary and the statistics block; an int()
\* that raises ends the process with a traceback and status 1
Report ==
    /\ pc = "stats"
    /\ IF StatsRaises(receipts)
       THEN /\ pc' = "crashed"
            /\ exit_code' = 1
            /\ UNCHANGED summary
       ELSE /\ pc' = "done"
            /\ exit_code' = 0
            /\ summary' = Summary(tx_hashes, successful, failed,
                                  GasUsedValues(receipts))
    /\ UNCHANGED <<log_file, out_before, out_file, line_no, tx_hashes, idx,
                   receipts, successful, failed, in_flight, requests,
                   responses, progress>>

Next ==
    \/ ExtractOpen
    \/ ExtractLine
    \/ ExtractReturn
    \/ ExtractReadError
    \/ NoHashesExit
    \/ BeginFetch
    \/ SendRequest
    \/ ReceiveResponse
    \/ SaveOutput
    \/ SaveFails
    \/ Report

Spec == Init /\ [][Next]_vars

\* the scanner alone, on logs with malformed occurrences
NextScan ==
    \/ ExtractOpen
    \/ ExtractLine
    \/ ExtractReturn
    \/ ExtractReadError

SpecScan == InitScan /\ [][NextScan]_vars

(***************************************************************************)
(* Vocabulary of the properties.                                           *)
(***************************************************************************)
FetchPhase == pc \in {"loop", "await"}
AfterLoop == pc \in {"stats", "done", "crashed", "write_error"}
OutputWritten == pc \in {"stats", "done", "crashed"}
Ended == pc \in {"not_found", "read_error", "no_hashes", "write_error",
                 "crashed", "done"}

\* the endpoint answered with an "error" field, or with result null
ErrorOrNull(resp) == resp.ok /\ (resp.error \/ resp.result.null)

\* the endpoint answered with no "error" field and a result that is an object
ObjectResult(resp) == resp.ok /\ ~resp.error /\ ~resp.result.null

\* the pairs (hash, returned result) at the positions the loop marked "ok"
RECURSIVE MarkedPairs(_, _, _)
MarkedPairs(hashes, resps, marks) ==
    IF marks = <<>> THEN <<>>
    ELSE LET n == Len(marks)
             rest == MarkedPairs(hashes, resps, SubSeq(marks, 1, n - 1))
         IN  IF marks[n] = "ok"
             THEN Append(rest, [tx_hash |-> hashes[n],
                                receipt |-> resps[n].result])
             ELSE rest

\* how many records of the file carry hash h
InOutput(h) ==
    Cardinality({j \in 1..Len(out_file.content) :
                    out_file.content[j].tx_hash = h})

(***************************************************************************)
(* C1: the fetch stage sends exactly one request per hash occurrence, in   *)
(* input order, with at most one request in flight; whatever the answer, a *)
(* request is never sent again and the next one is still sent, so every    *)
(* run that leaves the loop has sent exactly the extracted sequence.       *)
(***************************************************************************)
C1_OneRequestPerHash ==
    /\ Len(in_flight) <= 1
    /\ Len(requests) <= Len(tx_hashes)
    /\ requests = SubSeq(tx_hashes, 1, Len(requests))
    /\ Len(requests) = Len(responses) + Len(in_flight)
    /\ (FetchPhase \/ AfterLoop) => Len(responses) = idx
    /\ AfterLoop => requests = tx_hashes /\ in_flight = <<>>
    /\ (Ended /\ requests # <<>>) => AfterLoop

\* a duplicated hash whose first request failed in transport: both sent
C1_Witness ==
    /\ pc = "stats"
    /\ Len(tx_hashes) = 2
    /\ tx_hashes[1] = tx_hashes[2]
    /\ ~responses[1].ok
    /\ requests = tx_hashes

(***************************************************************************)
(* C2: the array in the output file is, in order, the pairs (hash,         *)
(* returned result) of exactly the positions whose fetch the loop marked   *)
(* successful: input order kept, duplicates kept, receipts unmodified.     *)
(***************************************************************************)
C2_OutputIsMarkedPairs ==
    OutputWritten =>
        /\ out_file.exists /\ out_file.complete
        /\ Len(progress) = Len(tx_hashes)
        /\ out_file.content = MarkedPairs(tx_hashes, responses, progress)

\* two different hashes, both fetched, with different receipts
C2_Witness ==
    /\ pc = "done"
    /\ Len(out_file.content) = 2
    /\ out_file.content[1].tx_hash # out_file.content[2].tx_hash
    /\ out_file.content[1].receipt # out_file.content[2].receipt

\* the same hash twice: two records
C2_WitnessDuplicate ==
    /\ pc = "done"
    /\ Len(out_file.content) = 2
    /\ out_file.content[1].tx_hash = out_file.content[2].tx_hash

(***************************************************************************)
(* C3 as stated: a hash whose request was answered with an error field or  *)
(* a null result does not appear in the output file, and the request is    *)
(* marked as a failure.                                                    *)
(***************************************************************************)
C3_Original ==
    \A k \in 1..Len(responses) :
        ErrorOrNull(responses[k]) =>
            /\ progress[k] = "fail"
            /\ OutputWritten => InOutput(tx_hashes[k]) = 0

(***************************************************************************)
(* C3 amended: a request answered with an error field or a null result     *)
(* adds one to the failure count and leaves the success count and the      *)
(* records unchanged, and it adds no record to the output file: a hash     *)
(* appears in the file at most once per request for it that was not        *)
(* answered so.                                                            *)
(***************************************************************************)
C3_StepOnErrorOrNull ==
    (pc = "await" /\ pc' = "loop"
        /\ ErrorOrNull(responses'[Len(responses')]))
    => /\ failed' = failed + 1
       /\ successful' = successful
       /\ receipts' = receipts

C3_NoRecordFromErrorOrNull ==
    OutputWritten =>
        \A k \in 1..Len(tx_hashes) :
            InOutput(tx_hashes[k]) <=
                Cardinality({j \in 1..Len(tx_hashes) :
                                /\ tx_hashes[j] = tx_hashes[k]
                                /\ ~ErrorOrNull(responses[j])})

C3_ErrorOrNullIsFailure ==
    [][C3_StepOnErrorOrNull]_vars /\ []C3_NoRecordFromErrorOrNull

\* the hash of a request answered with an error is in the file, through a
\* second occurrence of it
C3_Witness ==
    /\ pc = "done"
    /\ Len(tx_hashes) = 2
    /\ tx_hashes[1] = tx_hashes[2]
    /\ responses[1].ok /\ responses[1].error
    /\ failed = 1
    /\ InOutput(tx_hashes[1]) = 1

(***************************************************************************)
(* C4 as stated: every request answered with no error field and a result   *)
(* that is an object, an empty one included, is counted as a success and   *)
(* its record is collected.                                                *)
(***************************************************************************)
C4_ObjectResultIsSuccess ==
    /\ \A k \in 1..Len(progress) :
          ObjectResult(responses[k]) =>
              /\ progress[k] = "ok"
              /\ \E j \in 1..Len(receipts) :
                    receipts[j] = [tx_hash |-> tx_hashes[k],
                                   receipt |-> responses[k].result]
    /\ (FetchPhase \/ AfterLoop) =>
          successful >= Cardinality({k \in 1..Len(progress) :
                                        ObjectResult(responses[k])})

(***************************************************************************)
(* C5: when the scanner fails or returns no hash, the run ends without a   *)
(* request and with the output file as it was before the run.              *)
(***************************************************************************)
C5_NoFetchNoWrite ==
    /\ pc \in {"not_found", "read_error"} =>
          requests = <<>> /\ in_flight = <<>> /\ out_file = out_before
    /\ (pc \notin {"start", "scan", "not_found", "read_error"}
          /\ tx_hashes = <<>>) =>
          /\ pc \in {"scanned", "no_hashes"}
          /\ requests = <<>> /\ in_flight = <<>>
          /\ out_file = out_before

\* a log with lines and no hash, beside the file of an earlier run
C5_Witness ==
    /\ pc = "no_hashes"
    /\ log_file.lines # <<>>
    /\ out_before.exists
    /\ out_file = out_before

(***************************************************************************)
(* C6: status 0 when the run completes or finds no hash; non-zero when the *)
(* log is missing or unreadable or the output cannot be written; a write   *)
(* failure comes only after every hash was fetched.                        *)
(***************************************************************************)
C6_ExitStatus ==
    /\ Ended <=> exit_code # -1
    /\ pc \in {"done", "no_hashes"} => exit_code = 0
    /\ pc \in {"not_found", "read_error", "write_error"} =>
          exit_code \notin {0, -1}
    /\ pc = "done" =>
          /\ tx_hashes # <<>>
          /\ Len(responses) = Len(tx_hashes)
          /\ out_file = Written(receipts)
          /\ summary.printed
    /\ pc = "write_error" =>
          /\ Len(responses) = Len(tx_hashes)
          /\ idx = Len(tx_hashes)

\* the write fails after two hashes were fetched, one of them with success
C6_Witness ==
    /\ pc = "write_error"
    /\ Len(tx_hashes) = 2
    /\ successful >= 1
    /\ exit_code = 1

(***************************************************************************)
(* C7 as stated: once the output file is written, the run reaches the      *)
(* summary and ends normally, whatever the receipts hold.                  *)
(***************************************************************************)
C7_SummaryAlwaysReached ==
    (OutputWritten /\ Ended) =>
        /\ pc = "done"
        /\ summary.printed
        /\ exit_code = 0

(***************************************************************************)
(* C8 as stated: the statistics are those of the parsed gasUsed values of  *)
(* all records whose receipt has a gasUsed field with a parsable value.    *)
(***************************************************************************)
HasParsableGas(item) ==
    /\ "gasUsed" \in item.receipt.keys
    /\ item.receipt.gasUsed.kind \in {"num", "str"}
    /\ ParseGas(item.receipt.gasUsed).ok

RECURSIVE ParsableGasValues(_)
ParsableGasValues(recs) ==
    IF recs = <<>> THEN <<>>
    ELSE LET rest == ParsableGasValues(SubSeq(recs, 1, Len(recs) - 1))
             item == recs[Len(recs)]
         IN  IF HasParsableGas(item)
             THEN Append(rest, ParseGas(item.receipt.gasUsed).n)
             ELSE rest

C8_StatsOverParsable ==
    pc = "done" => summary.gas = GasStats(ParsableGasValues(receipts))

(***************************************************************************)
(* C9 as stated: the scanner returns exactly the well-formed occurrences   *)
(* (tx_hash= followed by 0x and exactly 64 hexadecimal characters) of the  *)
(* log, wherever they stand, in file order, duplicates kept.               *)
(***************************************************************************)
WellFormedAt(line, p) ==
    /\ MatchAt(line, p)
    /\ LET after == p + Len(TxHashLiteral) + 2 + HashDigits
       IN  after <= Len(line) => line[after] \notin HexChars

RECURSIVE WellFormedFrom(_, _)
WellFormedFrom(line, p) ==
    IF p > Len(line) THEN <<>>
    ELSE IF WellFormedAt(line, p)
         THEN <<Group1(line, p)>> \o WellFormedFrom(line, p + 1)
         ELSE WellFormedFrom(line, p + 1)

RECURSIVE WellFormedHashes(_)
WellFormedHashes(lines) ==
    IF lines = <<>> THEN <<>>
    ELSE WellFormedFrom(lines[1], 1) \o WellFormedHashes(Tail(lines))

C9_ExactlyWellFormed ==
    pc = "scanned" => tx_hashes = WellFormedHashes(log_file.lines)

(***************************************************************************)
(* C10: after k hashes, successful + failed = k and the records number     *)
(* successful; at the summary the two counts add up to the number of       *)
(* hashes and the file holds as many records as the success count.         *)
(***************************************************************************)
C10_CountersConsistent ==
    /\ (FetchPhase \/ AfterLoop) =>
          /\ successful + failed = idx
          /\ Len(receipts) = successful
          /\ idx <= Len(tx_hashes)
    /\ AfterLoop => successful + failed = Len(tx_hashes)
    /\ pc = "done" =>
          /\ summary.total = Len(tx_hashes)
          /\ summary.successful + summary.failed = summary.total
          /\ Len(out_file.content) = summary.successful

\* a run to the summary with one success and one failure
C10_Witness ==
    /\ pc = "done"
    /\ summary.successful = 1
    /\ summary.failed = 1
    /\ Len(out_file.content) = 1

====
